---- MODULE Spec2Model ----
(***************************************************************************)
(* Cardinal GaragePro backend (src/server.js): the /inference estimate     *)
(* handler and the /train-collect log handler.                             *)
(*                                                                         *)
(* JavaScript values are tagged records, strings are sequences of one-     *)
(* character strings, and JavaScript numbers are either NaN or an exact    *)
(* count of hundredths (every number the handler computes from integer     *)
(* inputs is a multiple of 0.01).                                          *)
(***************************************************************************)
EXTENDS Integers, Sequences, FiniteSets, TLC

\* req      the parsed body of the /inference request (req.body, line 77)
\* pc       position of the /inference handler: received, await, done
\* branch   the base-price branch the handler took (lines 93-104)
\* status   HTTP status answered: 0 none yet, 200 (line 150), 500 (line 153)
\* data     responseData (lines 134-141)
\* resp     the object handed to res.json (lines 150, 153)
\* fetchst  the awaited fetch promise: none, pending, resolved, rejected
\* log      the array stored in data/pipeline.json (lines 50-53, 161-165)
\* now      Date.now(), one tick per logged request (line 164)
\* arrived  history: the bodies /train-collect received, with arrival times
\* client   a client of /train-collect that posts once: idle, sent
VARIABLES req, pc, branch, status, data, resp, fetchst, log, now, arrived, client

vars == <<req, pc, branch, status, data, resp, fetchst, log, now, arrived, client>>

(* ------------------------------ bounds --------------------------------- *)
MaxShrub == 10
MaxAreaK == 4
MaxReq == 203

(* -------------------------- JavaScript values -------------------------- *)
Undef == [t |-> "undefined", n |-> 0, s |-> <<>>]
Null == [t |-> "null", n |-> 0, s |-> <<>>]
JNum(i) == [t |-> "number", n |-> i, s |-> <<>>]
JStr(str) == [t |-> "string", n |-> 0, s |-> str]
JTrue == [t |-> "boolean", n |-> 1, s |-> <<>>]
JObj == [t |-> "object", n |-> 0, s |-> <<>>]

\* a JavaScript number: NaN, or h hundredths
NaN == [nan |-> TRUE, h |-> 0]
Num(h) == [nan |-> FALSE, h |-> h]

(* ------------------------------ strings -------------------------------- *)
UpperAlpha == <<"A","B","C","D","E","F","G","H","I","J","K","L","M",
                "N","O","P","Q","R","S","T","U","V","W","X","Y","Z">>
LowerAlpha == <<"a","b","c","d","e","f","g","h","i","j","k","l","m",
                "n","o","p","q","r","s","t","u","v","w","x","y","z">>
DigitChars == <<"0","1","2","3","4","5","6","7","8","9">>

LowerChar(c) ==
  IF \E i \in 1..26 : UpperAlpha[i] = c
  THEN LowerAlpha[CHOOSE i \in 1..26 : UpperAlpha[i] = c]
  ELSE c

\* String.prototype.toLowerCase
toLowerCase(str) == [i \in 1..Len(str) |-> LowerChar(str[i])]

\* String.prototype.includes
includes(str, k) ==
  \E i \in 0..(Len(str) - Len(k)) : SubSeq(str, i + 1, i + Len(k)) = k

IsDigit(c) == \E i \in 1..10 : DigitChars[i] = c
DigitVal(c) == (CHOOSE i \in 1..10 : DigitChars[i] = c) - 1

RECURSIVE DigitsVal(_)
DigitsVal(str) ==
  IF Len(str) = 0 THEN 0
  ELSE 10 * DigitsVal(SubSeq(str, 1, Len(str) - 1)) + DigitVal(str[Len(str)])

AllDigits(str) == Len(str) > 0 /\ \A i \in 1..Len(str) : IsDigit(str[i])

RECURSIVE NatToStr(_)
NatToStr(n) ==
  IF n < 10 THEN <<DigitChars[n + 1]>>
  ELSE NatToStr(n \div 10) \o <<DigitChars[(n % 10) + 1]>>

IntToStr(n) == IF n < 0 THEN <<"-">> \o NatToStr(0 - n) ELSE NatToStr(n)

sNaN == <<"N","a","N">>

\* string form of a JavaScript number holding an integer or NaN
NumToStr(x) == IF x.nan THEN sNaN ELSE IntToStr(x.h \div 100)

(* --------------------------- string literals --------------------------- *)
sEmpty == <<>>
sSpace == <<" ">>
sMowing == <<"m","o","w","i","n","g">>
sLandscaping == <<"l","a","n","d","s","c","a","p","i","n","g">>
sMowingCap == <<"M","o","w","i","n","g">>
sLandscapingUp == <<"L","A","N","D","S","C","A","P","I","N","G">>
sGeneric == <<"g","e","n","e","r","i","c">>
sLawn == <<"l","a","w","n">>
sSmall == <<"s","m","a","l","l">>
sMedium == <<"m","e","d","i","u","m">>
sLarge == <<"l","a","r","g","e">>
sLargeCap == <<"L","a","r","g","e">>
sMediumUp == <<"M","E","D","I","U","M">>
sHuge == <<"h","u","g","e">>
sPremium == <<"p","r","e","m","i","u","m">>
sStone == <<"s","t","o","n","e">>
sRock == <<"r","o","c","k">>
sPremiumStone == <<"p","r","e","m","i","u","m"," ","s","t","o","n","e">>
sPremiumCap == <<"P","r","e","m","i","u","m">>
sRiverRock == <<"R","i","v","e","r"," ","R","o","c","k">>
sMulch == <<"m","u","l","c","h">>
sFlagstone == <<"F","l","a","g","s","t","o","n","e">>
sOvergrown == <<"o","v","e","r","g","r","o","w","n">>
sPatchy == <<"p","a","t","c","h","y">>
sNeglected == <<"n","e","g","l","e","c","t","e","d">>
sClean == <<"c","l","e","a","n">>
sFresh == <<"f","r","e","s","h">>
sSharp == <<"s","h","a","r","p">>
sOvergrownUp == <<"O","V","E","R","G","R","O","W","N">>
sPatchyClean == <<"p","a","t","c","h","y",","," ","c","l","e","a","n">>
sNiceYard == <<"n","i","c","e"," ","y","a","r","d">>
sFreshCap == <<"F","r","e","s","h">>
sNeglectedSharp == <<"N","e","g","l","e","c","t","e","d"," ","s","h","a","r","p">>
sOver == <<"o","v","e","r">>
sGrown == <<"g","r","o","w","n">>
sAbc == <<"a","b","c">>
s2000 == <<"2","0","0","0">>
s10 == <<"1","0">>
sMinus5 == <<"-","5">>
sNull == <<"n","u","l","l">>
sUndefined == <<"u","n","d","e","f","i","n","e","d">>
sTrue == <<"t","r","u","e">>
sObject == <<"[","o","b","j","e","c","t"," ","O","b","j","e","c","t","]">>
sEstimate == <<"E","s","t","i","m","a","t","e",":"," ","~","$">>
sDot == <<".">>
sPlus == <<"+">>

(* ------------------------------ coercions ------------------------------ *)
\* JavaScript truthiness, as used by (x || d)
Truthy(v) ==
  CASE v.t = "undefined" -> FALSE
    [] v.t = "null" -> FALSE
    [] v.t = "number" -> v.n # 0
    [] v.t = "string" -> Len(v.s) > 0
    [] v.t = "boolean" -> v.n = 1
    [] OTHER -> TRUE

\* Number(str) for the strings of the model: empty, decimal digits with an
\* optional sign, or not a numeral at all
StrToNumber(str) ==
  IF Len(str) = 0 THEN Num(0)
  ELSE IF AllDigits(str) THEN Num(100 * DigitsVal(str))
  ELSE IF str[1] = "-" /\ AllDigits(Tail(str)) THEN Num(0 - 100 * DigitsVal(Tail(str)))
  ELSE NaN

\* Number(v)
ToNumber(v) ==
  CASE v.t = "undefined" -> NaN
    [] v.t = "null" -> Num(0)
    [] v.t = "number" -> Num(100 * v.n)
    [] v.t = "string" -> StrToNumber(v.s)
    [] v.t = "boolean" -> Num(100 * v.n)
    [] OTHER -> NaN

\* Number(v || 0)
NumberOrZero(v) == IF Truthy(v) THEN ToNumber(v) ELSE Num(0)

\* (v || "").toLowerCase() is a TypeError when v is truthy and not a string
CanLower(v) == ~Truthy(v) \/ v.t = "string"

\* (v || "").toLowerCase()
LowerOrEmpty(v) == IF Truthy(v) THEN toLowerCase(v.s) ELSE sEmpty

\* the string a value contributes to a + concatenation
ToStr(v) ==
  CASE v.t = "undefined" -> sUndefined
    [] v.t = "null" -> sNull
    [] v.t = "number" -> IntToStr(v.n)
    [] v.t = "string" -> v.s
    [] v.t = "boolean" -> sTrue
    [] OTHER -> sObject

\* destructuring default: applies to undefined only
Default(v, d) == IF v.t = "undefined" THEN d ELSE v

\* v === "<str>"
StrictEq(v, str) == v.t = "string" /\ v.s = str

(* ------------------------------ arithmetic ----------------------------- *)
NumAdd(x, y) == IF x.nan \/ y.nan THEN NaN ELSE Num(x.h + y.h)
NumMul(x, y) == IF x.nan \/ y.nan THEN NaN ELSE Num((x.h * y.h) \div 100)
NumDiv(x, y) == IF x.nan \/ y.nan THEN NaN ELSE Num((x.h * 100) \div y.h)
MathMax(x, y) == IF x.nan \/ y.nan THEN NaN ELSE Num(IF x.h >= y.h THEN x.h ELSE y.h)
MathMin(x, y) == IF x.nan \/ y.nan THEN NaN ELSE Num(IF x.h <= y.h THEN x.h ELSE y.h)
\* Math.round: floor(x + 0.5)
MathRound(x) == IF x.nan THEN NaN ELSE Num(((x.h + 50) \div 100) * 100)
\* truthiness of a number: neither 0 nor NaN
NumTruthy(x) == ~x.nan /\ x.h # 0

IMax(a, b) == IF a >= b THEN a ELSE b
IMin(a, b) == IF a <= b THEN a ELSE b

(* --------------------------- estimate engine --------------------------- *)
\* inputs.<field>: inputs is absent (defaulted to {}), null, a primitive
\* (property reads give undefined) or an object holding the four fields
InputsThrows(inputs) == inputs.kind = "null"
Field(inputs, f) == IF inputs.kind = "obj" THEN inputs[f] ELSE Undef

\* the branch of the if / else-if / else chain that prices the request
PricingCase(mode, service) ==
  IF StrictEq(mode, sMowing) \/ StrictEq(service, sMowing) THEN "mowing"
  ELSE IF StrictEq(mode, sLandscaping) \/ StrictEq(service, sLandscaping) THEN "landscaping"
  ELSE "generic"

MowingBase_unclamped(areaSqFt) ==
  IF NumTruthy(areaSqFt)
  THEN MathMax(Num(3500), NumAdd(Num(2500), NumMul(areaSqFt, Num(3))))
  ELSE Num(4500)

\* areaSqFt ? Math.max(35, Math.min(125, 25 + areaSqFt * 0.03)) : 45
MowingBase(areaSqFt) ==
  IF NumTruthy(areaSqFt)
  THEN MathMax(Num(3500), MathMin(Num(12500), NumAdd(Num(2500), NumMul(areaSqFt, Num(3)))))
  ELSE Num(4500)

\* the three bedSize tests, on the lower-cased bedSize
BedSurcharge(bedSize) ==
  LET b0 == Num(12000)
      b1 == IF bedSize = sSmall THEN NumAdd(b0, Num(6000)) ELSE b0
      b2 == IF bedSize = sMedium THEN NumAdd(b1, Num(14000)) ELSE b1
      b3 == IF bedSize = sLarge THEN NumAdd(b2, Num(26000)) ELSE b2
  IN  b3

HasPriceMaterial(material) == includes(material, sPremium) \/ includes(material, sStone)

LandscapingBase_multiplyFirst(bedSize, shrubCount, material) ==
  LET b3 == BedSurcharge(bedSize)
      b4 == IF HasPriceMaterial(material) THEN NumMul(b3, Num(125)) ELSE b3
  IN  NumAdd(b4, NumMul(shrubCount, Num(600)))

LandscapingBase(bedSize, shrubCount, material) ==
  LET b3 == BedSurcharge(bedSize)
      b4 == NumAdd(b3, NumMul(shrubCount, Num(600)))
  IN  IF HasPriceMaterial(material) THEN NumMul(b4, Num(125)) ELSE b4

\* Math.round(Math.max(45, base))
Price(base) == MathRound(MathMax(Num(4500), base))

RiskHit(lower) ==
  includes(lower, sOvergrown) \/ includes(lower, sPatchy) \/ includes(lower, sNeglected)
CloseHit(lower) ==
  includes(lower, sClean) \/ includes(lower, sFresh) \/ includes(lower, sSharp)
UpsellMaterialHit(material) == includes(material, sPremium) \/ includes(material, sRock)

Adjust_chain(lower, material) ==
  IF RiskHit(lower) THEN [closePct |-> Num(7200), upsellPct |-> Num(5600), riskPct |-> Num(3600)]
  ELSE IF CloseHit(lower) THEN [closePct |-> Num(8200), upsellPct |-> Num(4000), riskPct |-> Num(1800)]
  ELSE IF UpsellMaterialHit(material)
       THEN [closePct |-> Num(7200), upsellPct |-> Num(6000), riskPct |-> Num(1800)]
  ELSE [closePct |-> Num(7200), upsellPct |-> Num(4000), riskPct |-> Num(1800)]

\* closePct = 72, upsellPct = 40, riskPct = 18 and the three keyword ifs
Adjust(lower, material) ==
  LET r == RiskHit(lower)
      c == CloseHit(lower)
      m == UpsellMaterialHit(material)
      up1 == IF r THEN NumAdd(Num(4000), Num(1600)) ELSE Num(4000)
  IN  [closePct |-> IF c THEN NumAdd(Num(7200), Num(1000)) ELSE Num(7200),
       upsellPct |-> IF m THEN NumAdd(up1, Num(2000)) ELSE up1,
       riskPct |-> IF r THEN NumAdd(Num(1800), Num(1800)) ELSE Num(1800)]

ClampPct_fraction(x, lo, hi) == NumDiv(MathMax(lo, MathMin(hi, x)), Num(10000))

\* Math.max(lo, Math.min(hi, x))
ClampPct(x, lo, hi) == MathMax(lo, MathMin(hi, x))

\* `+${Math.round((upsellPct / 100) * price)}`
Upsell(upsellPct, price) ==
  sPlus \o NumToStr(MathRound(NumMul(NumDiv(upsellPct, Num(10000)), price)))

\* the three sentences, joined by single spaces (sentences 2 and 3 by name)
Summary(price, upsellPct, riskPct) ==
  <<sEstimate \o NumToStr(price) \o sDot, sSpace,
    IF upsellPct.h > 4000 THEN "Solid upsell signal" ELSE "Keep it simple", sSpace,
    IF riskPct.h > 3500 THEN "Flag risk items" ELSE "Looks clean">>

\* no response has been produced
NoResp == [none |-> TRUE]

\* the body of the try block up to responseData: thrown, or responseData
Estimate(body) ==
  LET mode == Default(body.mode, JStr(sGeneric))
      service == Default(body.service, JStr(sEmpty))
      inputs == body.inputs
      notes == Default(body.notes, JStr(sEmpty))
      photoSummary == Default(body.photoSummary, JStr(sEmpty))
      bedSizeV == Field(inputs, "bedSize")
      materialV == Field(inputs, "material")
  IN
  IF InputsThrows(inputs) \/ ~CanLower(bedSizeV) \/ ~CanLower(materialV)
  THEN [thrown |-> TRUE, data |-> NoResp]
  ELSE
    LET areaSqFt == NumberOrZero(Field(inputs, "areaSqFt"))
        shrubCount == NumberOrZero(Field(inputs, "shrubCount"))
        bedSize == LowerOrEmpty(bedSizeV)
        material == LowerOrEmpty(materialV)
        case == PricingCase(mode, service)
        base == CASE case = "mowing" -> MowingBase(areaSqFt)
                  [] case = "landscaping" -> LandscapingBase(bedSize, shrubCount, material)
                  [] OTHER -> Num(7500)
        price == Price(base)
        lower == toLowerCase(ToStr(notes) \o sSpace \o ToStr(photoSummary))
        adj == Adjust(lower, material)
        closePct == ClampPct(adj.closePct, Num(500), Num(9800))
        upsellPct == ClampPct(adj.upsellPct, Num(500), Num(9800))
        riskPct == ClampPct(adj.riskPct, Num(300), Num(9500))
    IN [thrown |-> FALSE,
        data |-> [price |-> price,
                  upsell |-> Upsell(upsellPct, price),
                  summary |-> Summary(price, upsellPct, riskPct),
                  closePct |-> closePct,
                  upsellPct |-> upsellPct,
                  riskPct |-> riskPct]]

(* ------------------------------ requests ------------------------------- *)
NoInputs == [kind |-> "absent", areaSqFt |-> Undef, shrubCount |-> Undef,
             bedSize |-> Undef, material |-> Undef]
Inputs(a, n, b, m) == [kind |-> "obj", areaSqFt |-> a, shrubCount |-> n,
                       bedSize |-> b, material |-> m]
Body(mode, service, inputs, notes, photo) ==
  [mode |-> mode, service |-> service, inputs |-> inputs,
   notes |-> notes, photoSummary |-> photo]

Modes == {Undef, JStr(sMowing), JStr(sLandscaping), JStr(sMowingCap), JStr(sLawn)}
Services == {Undef, JStr(sMowing), JStr(sLandscaping), JStr(sLandscapingUp), JStr(sEmpty)}
AreaVals ==
  {Undef, Null, JStr(sAbc), JStr(s2000), JTrue, JObj, JNum(1), JNum(350), JNum(2000)}
    \cup {JNum(2500 * k) : k \in (0 - 1)..MaxAreaK}
ShrubVals ==
  {Undef, JStr(sAbc), JStr(s10), JStr(sMinus5), JObj, JNum(0 - 30)}
    \cup {JNum(n) : n \in (0 - MaxShrub)..MaxShrub}
BedVals ==
  {Undef, JStr(sSmall), JStr(sMedium), JStr(sLarge), JStr(sLargeCap), JStr(sMediumUp),
   JStr(sHuge), JStr(sEmpty), JNum(5), JObj}
MatVals ==
  {Undef, JStr(sPremiumStone), JStr(sPremiumCap), JStr(sRiverRock), JStr(sFlagstone),
   JStr(sMulch), JStr(sRock), JTrue}
NotesVals ==
  {Undef, Null, JStr(sOvergrown), JStr(sOvergrownUp), JStr(sPatchyClean), JStr(sNiceYard),
   JStr(sNeglectedSharp), JStr(sClean), JStr(sOver)}
PhotoVals == {Undef, JStr(sFreshCap), JStr(sGrown), JStr(sPatchy), JStr(sSharp)}

\* every mode/service pair, over the areas
DispatchRequests ==
  {Body(mo, se, Inputs(a, Undef, Undef, m), Undef, Undef) :
     mo \in Modes, se \in Services, a \in AreaVals, m \in {Undef, JStr(sPremiumCap)}}

LandscapingRequests ==
  {Body(ms[1], ms[2], Inputs(Undef, n, b, m), no, Undef) :
     ms \in {<<JStr(sLandscaping), Undef>>, <<Undef, JStr(sLandscaping)>>,
             <<JStr(sLawn), JStr(sLandscaping)>>},
     n \in ShrubVals, b \in BedVals, m \in MatVals, no \in {Undef, JStr(sOvergrown)}}

KeywordRequests ==
  {Body(mo, Undef, Inputs(JNum(2000), JNum(10), JStr(sLarge), m), no, ph) :
     mo \in {Undef, JStr(sMowing), JStr(sLandscaping)},
     m \in MatVals, no \in NotesVals, ph \in PhotoVals}

\* inputs omitted, null, or a primitive
MalformedRequests ==
  {Body(mo, se, [NoInputs EXCEPT !.kind = k], no, Undef) :
     mo \in Modes, se \in Services, k \in {"absent", "null", "prim"},
     no \in {Undef, JStr(sOvergrown)}}

Requests == DispatchRequests \cup LandscapingRequests \cup KeywordRequests \cup MalformedRequests

(* ------------------------------- the log ------------------------------- *)
LogCap == 200

\* { ...a, ...b }: the fields of b override those of a
Spread(a, b) ==
  [k \in (DOMAIN a) \cup (DOMAIN b) |-> IF k \in DOMAIN b THEN b[k] ELSE a[k]]

\* Array.prototype.slice(-n)
SliceLast(seq, n) ==
  IF Len(seq) <= n THEN seq ELSE SubSeq(seq, Len(seq) - n + 1, Len(seq))

\* /train-collect: read the file, push { t: Date.now(), ...incoming },
\* write back the last 200 entries; the handler has no await between them
TrainCollect(incoming) ==
  /\ log' = SliceLast(Append(log, Spread([t |-> now], incoming)), LogCap)
  /\ arrived' = Append(arrived, [at |-> now, body |-> incoming])
  /\ now' = now + 1

(* ----------------------- the /inference handler ------------------------ *)
SampleBody == Body(Undef, Undef, NoInputs, Undef, Undef)

Init ==
  /\ req \in Requests
  /\ pc = "received"
  /\ branch = "none"
  /\ status = 0
  /\ data = NoResp
  /\ resp = NoResp
  /\ fetchst = "none"
  /\ log = <<>>
  /\ now = 1
  /\ arrived = <<>>
  /\ client = "idle"

\* lines 77-147: compute responseData and start the fetch that is awaited
InferCompute ==
  /\ pc = "received"
  /\ ~Estimate(req).thrown
  /\ data' = Estimate(req).data
  /\ branch' = PricingCase(Default(req.mode, JStr(sGeneric)), Default(req.service, JStr(sEmpty)))
  /\ pc' = "await"
  /\ fetchst' = "pending"
  /\ UNCHANGED <<req, status, resp, log, now, arrived, client>>

\* lines 151-154: the catch block
InferThrow ==
  /\ pc = "received"
  /\ Estimate(req).thrown
  /\ status' = 500
  /\ resp' = [error |-> "Inference failed"]
  /\ pc' = "done"
  /\ UNCHANGED <<req, branch, data, fetchst, log, now, arrived, client>>

\* the POST reaches /train-collect, which logs it, and the fetch resolves
FetchResolve ==
  /\ pc = "await"
  /\ fetchst = "pending"
  /\ TrainCollect([event |-> "inference", payload |-> data])
  /\ fetchst' = "resolved"
  /\ UNCHANGED <<req, branch, pc, status, data, resp, client>>

\* the fetch rejects; .catch(() => {}) swallows the failure
FetchReject ==
  /\ pc = "await"
  /\ fetchst = "pending"
  /\ fetchst' = "rejected"
  /\ UNCHANGED <<req, branch, pc, status, data, resp, log, now, arrived, client>>

\* line 150: res.json(responseData), after the awaited promise has settled
Respond ==
  /\ pc = "await"
  /\ fetchst \in {"resolved", "rejected"}
  /\ resp' = data
  /\ status' = 200
  /\ pc' = "done"
  /\ UNCHANGED <<req, branch, data, fetchst, log, now, arrived, client>>

Next == InferCompute \/ InferThrow \/ FetchResolve \/ FetchReject \/ Respond

Spec == Init /\ [][Next]_vars

(* ------------------- /train-collect under many posts ------------------- *)
\* the body /inference posts, and a body a client sends with its own t
InferenceEvent == [event |-> "inference", payload |-> Estimate(SampleBody).data]
ClientEvent == [t |-> 0, event |-> "client"]

InitLog ==
  /\ req = SampleBody
  /\ pc = "idle"
  /\ branch = "none"
  /\ status = 0
  /\ data = NoResp
  /\ resp = NoResp
  /\ fetchst = "none"
  /\ log = <<>>
  /\ now = 1
  /\ arrived = <<>>
  /\ client = "idle"

CollectInference ==
  /\ Len(arrived) < MaxReq
  /\ TrainCollect(InferenceEvent)
  /\ UNCHANGED <<req, branch, pc, status, data, resp, fetchst, client>>

\* one client posts a single body that carries a field named t
CollectClient ==
  /\ Len(arrived) < MaxReq
  /\ client = "idle"
  /\ client' = "sent"
  /\ TrainCollect(ClientEvent)
  /\ UNCHANGED <<req, branch, pc, status, data, resp, fetchst>>

NextLog == CollectInference \/ CollectClient

SpecLog == InitLog /\ [][NextLog]_vars

(* ------------------------------- claims -------------------------------- *)
Returned == pc = "done" /\ status = 200
IsInteger(x) == ~x.nan /\ x.h % 100 = 0
InRange(x, lo, hi) == IsInteger(x) /\ lo * 100 <= x.h /\ x.h <= hi * 100
FloorHalfUp(h) == (h + 50) \div 100

\* C1: every returned price is an integer and is at least 45.
C1_PriceIntegerAtLeast45 ==
  Returned => IsInteger(resp.price) /\ resp.price.h >= 4500

\* C2: no payload makes the computation fail: the handler never answers
\* 500 and the response it gives carries a numeric price.
C2_NeverFails ==
  pc = "done" => status = 200 /\ ~resp.price.nan

\* C3: mode decides the pricing case when it is "mowing" or "landscaping";
\* service is consulted only otherwise; the generic case prices at 75.
ClaimedCase(body) ==
  IF StrictEq(body.mode, sMowing) THEN "mowing"
  ELSE IF StrictEq(body.mode, sLandscaping) THEN "landscaping"
  ELSE IF StrictEq(body.service, sMowing) THEN "mowing"
  ELSE IF StrictEq(body.service, sLandscaping) THEN "landscaping"
  ELSE "generic"
C3_ModeBeforeService ==
  Returned =>
    /\ branch = ClaimedCase(req)
    /\ (ClaimedCase(req) = "generic" => resp.price = Num(7500))

\* the landscaping price in whole-number arithmetic: base in hundredths
LandscapingPrice(surcharge, n, mult) ==
  LET b == 120 + surcharge + 6 * n
      h == IF mult THEN 125 * b ELSE 100 * b
  IN  FloorHalfUp(IMax(4500, h))
SurchargeOf(str) ==
  IF str = sSmall THEN 60 ELSE IF str = sMedium THEN 140
  ELSE IF str = sLarge THEN 260 ELSE 0
BedText(v) == IF v.t = "string" THEN v.s ELSE sEmpty
MaterialText(v) == IF v.t = "string" THEN toLowerCase(v.s) ELSE sEmpty
MultMaterial(v) == includes(MaterialText(v), sPremium) \/ includes(MaterialText(v), sStone)
ShrubOf(body) == NumberOrZero(Field(body.inputs, "shrubCount"))

\* C4 as stated: the landscaping price is round(max(45, base)), the
\* surcharge keyed by bedSize exactly as given.
C4_SurchargeExactBedSize ==
  (Returned /\ branch = "landscaping" /\ ~ShrubOf(req).nan) =>
    resp.price = Num(100 * LandscapingPrice(SurchargeOf(BedText(Field(req.inputs, "bedSize"))),
                                            ShrubOf(req).h \div 100,
                                            MultMaterial(Field(req.inputs, "material"))))

\* C4 amended: the landscaping price is round(max(45, base)), the surcharge
\* keyed by the lower-cased bedSize; a shrubCount that is not a number
\* leaves the price NaN.
C4_SurchargeLowerCasedBedSize ==
  (Returned /\ branch = "landscaping") =>
    IF ShrubOf(req).nan THEN resp.price.nan
    ELSE resp.price =
           Num(100 * LandscapingPrice(
                       SurchargeOf(toLowerCase(BedText(Field(req.inputs, "bedSize")))),
                       ShrubOf(req).h \div 100,
                       MultMaterial(Field(req.inputs, "material"))))

C4_Witness ==
  /\ Returned /\ branch = "landscaping"
  /\ Field(req.inputs, "bedSize") = JStr(sLargeCap)
  /\ Field(req.inputs, "shrubCount") = JNum(10)
  /\ Field(req.inputs, "material") = JStr(sPremiumStone)
  /\ resp.price = Num(55000)

\* C5: the mowing price is round(max(45, clamp(25 + 0.03 * areaSqFt, 35,
\* 125))) for a positive areaSqFt and 45 otherwise; it lies in [45, 125];
\* 2000 square feet price at 85 and 10000 at 125.
AreaOf(body) == NumberOrZero(Field(body.inputs, "areaSqFt"))
MowingPrice(a) ==
  IF ~a.nan /\ a.h > 0
  THEN FloorHalfUp(IMax(4500, IMax(3500, IMin(12500, 2500 + 3 * (a.h \div 100)))))
  ELSE 45
C5_MowingPrice ==
  (Returned /\ branch = "mowing") =>
    /\ resp.price = Num(100 * MowingPrice(AreaOf(req)))
    /\ InRange(resp.price, 45, 125)
    /\ (AreaOf(req) = Num(200000) => resp.price = Num(8500))
    /\ (AreaOf(req) = Num(1000000) => resp.price = Num(12500))

C5_Witness ==
  /\ Returned /\ branch = "mowing"
  /\ Field(req.inputs, "areaSqFt") = JNum(10000)
  /\ resp.price = Num(12500)

\* C6: riskPct = 18 + 18R, closePct = 72 + 10C, upsellPct = 40 + 16R + 20M,
\* each keyword group an independent toggle looked for in the lower-cased
\* notes and photoSummary (R, C) and in the lower-cased material (M).
TextOf(v) == toLowerCase(ToStr(Default(v, JStr(sEmpty))))
InNotes(body, k) == includes(TextOf(body.notes), k) \/ includes(TextOf(body.photoSummary), k)
RiskBit(body) ==
  IF InNotes(body, sOvergrown) \/ InNotes(body, sPatchy) \/ InNotes(body, sNeglected)
  THEN 1 ELSE 0
CloseBit(body) ==
  IF InNotes(body, sClean) \/ InNotes(body, sFresh) \/ InNotes(body, sSharp) THEN 1 ELSE 0
MaterialBit(body) ==
  LET m == MaterialText(Field(body.inputs, "material"))
  IN  IF includes(m, sPremium) \/ includes(m, sRock) THEN 1 ELSE 0
C6_IndependentToggles ==
  Returned =>
    /\ resp.riskPct = Num(100 * (18 + 18 * RiskBit(req)))
    /\ resp.closePct = Num(100 * (72 + 10 * CloseBit(req)))
    /\ resp.upsellPct = Num(100 * (40 + 16 * RiskBit(req) + 20 * MaterialBit(req)))

C6_Witness ==
  /\ Returned
  /\ req.notes = JStr(sOvergrown) /\ req.photoSummary = Undef
  /\ MaterialBit(req) = 0
  /\ resp.riskPct = Num(3600) /\ resp.upsellPct = Num(5600) /\ resp.closePct = Num(7200)

\* C7: closePct and upsellPct are integers in [5, 98] and riskPct is an
\* integer in [3, 95].
C7_PercentRanges ==
  Returned =>
    /\ InRange(resp.closePct, 5, 98)
    /\ InRange(resp.upsellPct, 5, 98)
    /\ InRange(resp.riskPct, 3, 95)

C7_Witness ==
  /\ Returned
  /\ resp.closePct = Num(8200) /\ resp.upsellPct = Num(7600) /\ resp.riskPct = Num(3600)

\* C8: upsell is "+" followed by a non-negative integer, the rounding of
\* upsellPct / 100 * price taken from the returned upsellPct and price.
C8_UpsellPattern ==
  Returned =>
    /\ Len(resp.upsell) >= 2
    /\ resp.upsell[1] = "+"
    /\ AllDigits(Tail(resp.upsell))
    /\ 100 * DigitsVal(Tail(resp.upsell)) =
         MathRound(NumMul(NumDiv(resp.upsellPct, Num(10000)), resp.price)).h

\* C9: the log never holds more than 200 entries, holds the latest
\* min(n, 200) submitted events in arrival order, and each entry's t is the
\* time of its arrival.
C9_LogKeepsLatest ==
  LET n == Len(arrived)
      k == IMin(n, LogCap)
  IN  /\ Len(log) <= LogCap
      /\ Len(log) = k
      /\ \A i \in 1..k :
           /\ log[i].t = arrived[n - k + i].at
           /\ log[i].event = arrived[n - k + i].body.event

\* C10: no request waits unanswered on the outcome of its log call.
C10_NotWithheld ==
  ~(pc = "await" /\ fetchst = "pending" /\ resp = NoResp)

====
